---- MODULE Spec2Model ----
(***************************************************************************)
(* Model of task_1.py: main() resolves a source and a destination path,    *)
(* checks the source, creates the destination root and calls              *)
(* copy_and_sort(src, dst_root), a recursive depth-first walk that moves   *)
(* every regular file to dst_root/<lowercased extension>/<name>.           *)
(*                                                                         *)
(* A file name is a sequence of one-character strings, a path a sequence   *)
(* of names (the empty path is the filesystem root).  The filesystem is a  *)
(* function from the canonical paths that exist to their entries.          *)
(*                                                                         *)
(* An intermediate value is bound once by drawing it from a singleton set  *)
(* (\E x \in {e} : ..., CHOOSE r \in {F(x) : x \in {e}} : TRUE), so that it  *)
(* is computed one time wherever it is used.                               *)
(***************************************************************************)
EXTENDS Naturals, Sequences, FiniteSets, TLC

VARIABLES
    pc,       \* position of main(): "main", "walk", "done"
    fs,       \* the filesystem: canonical path -> entry
    fs0,      \* the filesystem before the run
    argSrc,   \* args.source, as given
    argDst,   \* args.destination, as given
    src,      \* main's src = Path(args.source).resolve()
    dst,      \* main's dst = Path(args.destination).resolve()
    denied,   \* what the process has no permission on: a directory it cannot list, a
              \* file it can neither rename, replace, write nor remove
    readable, \* the denied files it can still read (an immutable file)
    stack,    \* active copy_and_sort invocations, innermost last
    out,      \* lines printed so far
    failed,   \* operations that raised so far
    calls,    \* invocations of copy_and_sort made so far
    name,     \* a file base name (bucket-name specification)
    bucket    \* the bucket computed for name, <<"?">> before it is computed

vars == <<pc, fs, fs0, argSrc, argDst, src, dst, denied, readable, stack, out, failed, calls, name, bucket>>

----------------------------------------------------------------------------
(* Bounds of the model *)

\* longest base name drawn by the bucket-name specification
MaxLen == 4

\* most regular files in an initial filesystem
MaxFiles == 2

\* most optional (non-file) entries in an initial filesystem
MaxExtras == 1

\* most paths without permission
MaxDenied == 1

\* deepest nesting of copy_and_sort invocations allowed
MaxStack == 6

----------------------------------------------------------------------------
(* Names and the bucket of a name: item.suffix.lower().lstrip(".") *)

Alphabet == {"a", "T", "t", "."}

\* str.lower(), on the characters used
Lower(c) ==
    CASE c = "T" -> "t"
      [] c = "A" -> "a"
      [] c = "B" -> "b"
      [] OTHER -> c

LowerStr(s) == [k \in 1..Len(s) |-> Lower(s[k])]

\* str.rfind(c), 1-based: the last index of c in s, 0 when c is not in s
RFind(s, c) ==
    LET hits == {k \in 1..Len(s) : s[k] = c}
    IN  IF hits = {} THEN 0 ELSE CHOOSE k \in hits : \A j \in hits : j <= k

\* a suffix that may start at the first character of the name
Suffix_NoLeadingDotRule(s) ==
    CHOOSE x \in {IF 1 <= i /\ i < Len(s) THEN SubSeq(s, i, Len(s)) ELSE <<>> :
                    i \in {RFind(s, ".")}} : TRUE

\* PurePath.suffix: name[i:] when 0 < i < len(name) - 1 (0-based i), else ''
Suffix(s) ==
    CHOOSE x \in {IF 1 < i /\ i < Len(s) THEN SubSeq(s, i, Len(s)) ELSE <<>> :
                    i \in {RFind(s, ".")}} : TRUE

\* str.lstrip(c): s without its leading run of c
LStrip(s, c) ==
    LET keep == {k \in 1..Len(s) : s[k] # c}
    IN  IF keep = {} THEN <<>>
        ELSE SubSeq(s, CHOOSE k \in keep : \A j \in keep : k <= j, Len(s))

NoExtension == <<"n", "o", "_", "e", "x", "t", "e", "n", "s", "i", "o", "n">>

\* the extension with its case kept
Ext_NoLower(s) == CHOOSE e \in {LStrip(x, ".") : x \in {Suffix(s)}} : TRUE

\* line 44: item.suffix.lower().lstrip(".")
Ext(s) ==
    CHOOSE e \in {LStrip(l, ".") : l \in {LowerStr(x) : x \in {Suffix(s)}}} : TRUE

\* lines 44-46: the extension, "no_extension" when it is empty
BucketName(s) ==
    CHOOSE b \in {IF ext = <<>> THEN NoExtension ELSE ext : ext \in {Ext(s)}} : TRUE

----------------------------------------------------------------------------
(* Paths and the filesystem *)

Root == <<>>

Front(p) == SubSeq(p, 1, Len(p) - 1)

Last(p) == p[Len(p)]

Prefixes(p) == {SubSeq(p, 1, k) : k \in 0..Len(p)}

DirEntry == [kind |-> "dir", id |-> <<>>, to |-> <<>>, copy |-> FALSE]

\* a regular file; id is the path it had before the run (its identity)
FileEntry(p) == [kind |-> "file", id |-> p, to |-> <<>>, copy |-> FALSE]

\* what shutil.copy2 writes: a second file with the content of the file e
CopyEntry(e) == [kind |-> "file", id |-> e.id, to |-> <<>>, copy |-> TRUE]

\* a symbolic link to the path t
LinkEntry(t) == [kind |-> "link", id |-> <<>>, to |-> t, copy |-> FALSE]

\* something that is neither a directory nor a regular file (a fifo, a device)
OtherEntry == [kind |-> "other", id |-> <<>>, to |-> <<>>, copy |-> FALSE]

\* Path.resolve(): the canonical path of p, symbolic links followed
RECURSIVE Resolve(_, _)
Resolve(f, p) ==
    IF p = <<>> THEN <<>>
    ELSE CHOOSE r \in {IF q \in DOMAIN f /\ f[q].kind = "link" THEN Resolve(f, f[q].to) ELSE q :
                         q \in {Resolve(f, Front(p)) \o <<Last(p)>>}} : TRUE

\* where the entry named by p lives: the links of its directory followed, its own not
NoFollow(f, p) == IF p = <<>> THEN p ELSE Resolve(f, Front(p)) \o <<Last(p)>>

\* what stat() finds at p
Kind(f, p) ==
    CHOOSE k \in {IF q \in DOMAIN f THEN f[q].kind ELSE "none" : q \in {Resolve(f, p)}} : TRUE

\* Path.is_dir()
IsDir(f, p) == Kind(f, p) = "dir"

\* Path.is_file()
IsFile(f, p) == Kind(f, p) = "file"

\* os.listdir(d): the names of the entries of d
ListDir(f, d) ==
    UNION {{q[Len(q)] : q \in {q \in DOMAIN f : Len(q) = Len(r) + 1 /\ Front(q) = r}} :
             r \in {Resolve(f, d)}}

\* os.listdir(d) succeeds: d is a directory the process may read
CanList(f, d, den) == IsDir(f, d) /\ Resolve(f, d) \notin den

\* Path.mkdir(parents=True, exist_ok=True) succeeds: nothing on the way is a non-directory
MkdirOk(f, p) == \A q \in Prefixes(p) : Kind(f, q) \in {"dir", "none"}

\* Path.mkdir(parents=True, exist_ok=True): p and its missing ancestors are created
MkdirP(f, p) ==
    CHOOSE g \in {f @@ [q \in new |-> DirEntry] :
                    new \in {Prefixes(Resolve(f, p)) \ DOMAIN f}} : TRUE

\* shutil.move: real_dst, the target itself or, when the target is a directory, a path inside it
RealDst(f, item, target) == IF IsDir(f, target) THEN target \o <<Last(item)>> ELSE target

\* os.rename(s, d) raises nothing: renaming an entry to itself does nothing; otherwise
\* neither the entry renamed nor an entry it would replace may be denied
RenameOk(s, d, den) == s = d \/ (s \notin den /\ d \notin den)

\* shutil.move(item, target) raises nothing
MoveOk(f, item, target, den) ==
    \E s \in {NoFollow(f, item)}, d \in {RealDst(f, item, target)} :
        /\ s \in DOMAIN f
        /\ IsDir(f, target) => Kind(f, d) = "none"
        /\ \E parent \in {Front(d)} : IsDir(f, parent)
        /\ \E real_dst \in {NoFollow(f, d)} : RenameOk(s, real_dst, den)

\* shutil.move, os.rename having raised: copy2(s, w) raises nothing when s can be read
\* and w can be written, a regular file or nothing being there
CopyOk(f, s, w, den, rd) ==
    /\ s \notin den \/ s \in rd
    /\ w \notin den
    /\ w \in DOMAIN f => f[w].kind = "file"

\* the filesystem a shutil.move that raises leaves: as it was when the destination
\* exists inside the target directory or copy2 raises; with the copy written when it
\* is os.unlink(item) that raises
MoveRaised(f, item, target, den, rd) ==
    CHOOSE g \in {IF /\ IsDir(f, target) => w \notin DOMAIN f
                     /\ CopyOk(f, s, w, den, rd)
                     /\ s \in den
                  THEN (w :> CopyEntry(f[s])) @@ f
                  ELSE f :
                    s \in {NoFollow(f, item)},
                    w \in {Resolve(f, d) : d \in {RealDst(f, item, target)}}} : TRUE

\* os.rename(s, d) on a file: the entry at s is now at d, in place of what was there
Rename(f, s, d) ==
    IF s = d THEN f
    ELSE (d :> f[s]) @@ [q \in DOMAIN f \ {s} |-> f[q]]

\* a rename that leaves an existing target as it is
Rename_KeepExisting(f, s, d) ==
    IF d \in DOMAIN f THEN f
    ELSE (d :> f[s]) @@ [q \in DOMAIN f \ {s} |-> f[q]]

\* a move that leaves an existing target as it is
Move_KeepExisting(f, item, target) ==
    CHOOSE g \in {Rename_KeepExisting(f, s, d) :
                    s \in {NoFollow(f, item)},
                    d \in {NoFollow(f, real_dst) : real_dst \in {RealDst(f, item, target)}}} : TRUE

\* shutil.move(item, target): os.rename(item, real_dst)
Move(f, item, target) ==
    CHOOSE g \in {Rename(f, s, d) :
                    s \in {NoFollow(f, item)},
                    d \in {NoFollow(f, real_dst) : real_dst \in {RealDst(f, item, target)}}} : TRUE

----------------------------------------------------------------------------
(* The initial filesystems and arguments *)

nS == <<"s">>
nX == <<"x">>
nT == <<"t">>
nD == <<"d">>
nO == <<"o">>
nL == <<"l">>
nP == <<"p">>
nAt == <<"a", ".", "t">>
nBT == <<"b", ".", "T">>
nHid == <<".", "t">>

\* where a regular file may be before the run
FileCands ==
    {<<nS, n>> : n \in {nAt, nBT, nT, nHid}}
      \cup {<<nS, nX, n>> : n \in {nAt, nBT, nT}}
      \cup {<<nS, nT, n>> : n \in {nAt, nT}}
      \cup {<<nS, nD, nAt>>, <<nO, nT>>}

\* the other entries that may exist before the run
ExtraCands ==
    {[path |-> p, entry |-> DirEntry] :
        p \in {<<nO>>, <<nS, nD>>, <<nS, nX>>, <<nO, nT, nAt>>, <<nS, nT, nAt>>}}
      \cup {[path |-> <<nS, nL>>, entry |-> LinkEntry(t)] :
              t \in {<<nS, nX>>, <<nS, nD>>, <<nO>>}}
      \cup {[path |-> <<nS, nP>>, entry |-> OtherEntry]}

SrcArgs == {<<nS>>, <<nS, nT>>, <<nS, nL>>}

DstArgs == {<<nO>>, <<nS, nD>>, <<nS>>, <<nS, nT>>, <<nS, nX, nD>>}

\* the directories an initial filesystem holds: the root, /s, and every directory
\* that leads to an entry or that a link points to
InitDirs(files, extras) ==
    {Root, <<nS>>}
      \cup UNION {Prefixes(Front(p)) : p \in files}
      \cup UNION {Prefixes(Front(e.path)) : e \in extras}
      \cup UNION {Prefixes(e.path) : e \in {x \in extras : x.entry.kind = "dir"}}
      \cup UNION {Prefixes(e.entry.to) : e \in {x \in extras : x.entry.kind = "link"}}

\* no path is both a directory and something else
InitValid(files, extras) ==
    LET dirs == InitDirs(files, extras)
    IN  /\ files \cap dirs = {}
        /\ \A e \in extras : e.entry.kind # "dir" => e.path \notin dirs \cup files
        /\ \A e, g \in extras : e.path = g.path => e = g

InitFs(files, extras) ==
    LET dirs == InitDirs(files, extras)
        others == {e \in extras : e.entry.kind # "dir"}
    IN  [q \in dirs \cup files \cup {e.path : e \in others} |->
            IF q \in dirs THEN DirEntry
            ELSE IF q \in files THEN FileEntry(q)
            ELSE (CHOOSE e \in others : e.path = q).entry]

\* lines 102-104: the arguments are parsed and resolved
Init ==
    \E files \in {F \in SUBSET FileCands : Cardinality(F) <= MaxFiles} :
    \E extras \in {E \in SUBSET ExtraCands : Cardinality(E) <= MaxExtras} :
    \E a \in SrcArgs, b \in DstArgs :
        /\ InitValid(files, extras)
        /\ fs0 = InitFs(files, extras)
        /\ fs = fs0
        /\ argSrc = a
        /\ argDst = b
        /\ src = Resolve(fs0, a)
        /\ dst = Resolve(fs0, b)
        /\ denied \in {D \in SUBSET (files \cup {<<nS, nX>>}) : Cardinality(D) <= MaxDenied}
        /\ readable \in SUBSET (denied \cap files)
        /\ pc = "main"
        /\ stack = <<>>
        /\ out = {}
        /\ failed = {}
        /\ calls = {}
        /\ name = <<>>
        /\ bucket = <<"?">>

----------------------------------------------------------------------------
(* main() *)

\* a source that only has to exist
SourceValid_ExistsOnly(f, s) == Kind(f, s) # "none"

\* line 106: src.exists() and src.is_dir()
SourceValid(f, s) == Kind(f, s) # "none" /\ IsDir(f, s)

Line(k, p) == [kind |-> k, path |-> p]

Raised(o, p) == [op |-> o, path |-> p]

\* lines 106-108
RejectSource ==
    /\ pc = "main"
    /\ ~SourceValid(fs, src)
    /\ out' = out \cup {Line("source", src)}
    /\ pc' = "done"
    /\ UNCHANGED <<fs, fs0, argSrc, argDst, src, dst, denied, readable, stack, failed, calls, name, bucket>>

\* lines 110-114
DestinationFails ==
    /\ pc = "main"
    /\ SourceValid(fs, src)
    /\ ~MkdirOk(fs, dst)
    /\ out' = out \cup {Line("destination", dst)}
    /\ failed' = failed \cup {Raised("mkdir", dst)}
    /\ pc' = "done"
    /\ UNCHANGED <<fs, fs0, argSrc, argDst, src, dst, denied, readable, stack, calls, name, bucket>>

----------------------------------------------------------------------------
(* copy_and_sort(src, dst_root) *)

Top == stack[Len(stack)]

\* the loop of the innermost invocation goes on to its next item
Advance(stk, n) == [stk EXCEPT ![Len(stk)].pending = @ \ {n}]

\* line 38: an item of src.iterdir()
Item(dir, n) == dir \o <<n>>

\* a failed listing unwinds every caller
AfterListFailure_Propagate(stk) == <<>>

\* lines 57-58, os.listdir raised: the invocation returns, its callers go on
AfterListFailure(stk) == stk

\* a failed move ends the loop of its directory
AfterMoveFailure_LeaveLoop(stk, n) == Front(stk)

\* a failed move is tried again
AfterMoveFailure_Retry(stk, n) == stk

\* lines 55-56: the loop goes on
AfterMoveFailure(stk, n) == Advance(stk, n)

\* lines 57-58, mkdir raised inside the loop: the invocation returns
AfterMkdirFailure(stk, n) == Front(stk)

\* the skip of the destination root ends the loop
AfterSkip_Return(stk, n) == Front(stk)

\* line 41: continue
AfterSkip(stk, n) == Advance(stk, n)

\* the paths compared as written, links not followed
IsDestination_Unresolved(f, item, d) == item = d

\* line 40
IsDestination(f, item, d) == Resolve(f, item) = Resolve(f, d)

\* copy_and_sort(dir, dst) is called by an invocation whose stack is stk:
\* lines 37-38, the listing is taken when the loop starts
Call(f, stk, dir) ==
    /\ calls' = calls \cup {[dir |-> Resolve(f, dir), depth |-> Len(stk)]}
    /\ IF CanList(f, dir, denied)
       THEN /\ stack' = Append(stk, [dir |-> dir, pending |-> ListDir(f, dir)])
            /\ UNCHANGED <<out, failed>>
       ELSE /\ stack' = AfterListFailure(stk)
            /\ out' = out \cup {Line("access", dir)}
            /\ failed' = failed \cup {Raised("listdir", dir)}

\* lines 110-116: the destination root is created and the walk starts
StartWalk ==
    /\ pc = "main"
    /\ SourceValid(fs, src)
    /\ MkdirOk(fs, dst)
    /\ fs' = MkdirP(fs, dst)
    /\ Call(fs', <<>>, src)
    /\ pc' = "walk"
    /\ UNCHANGED <<fs0, argSrc, argDst, src, dst, denied, readable, name, bucket>>

\* lines 39-41: the destination root is skipped
SkipDestination(n) ==
    LET item == Item(Top.dir, n)
    IN  /\ IsDir(fs, item)
        /\ IsDestination(fs, item, dst)
        /\ stack' = AfterSkip(stack, n)
        /\ UNCHANGED <<pc, fs, fs0, argSrc, argDst, src, dst, denied, readable, out, failed, calls, name, bucket>>

\* lines 39-42: the recursive call
Recurse(n) ==
    LET item == Item(Top.dir, n)
    IN  /\ IsDir(fs, item)
        /\ ~IsDestination(fs, item, dst)
        /\ Len(stack) < MaxStack
        /\ Call(fs, Advance(stack, n), item)
        /\ UNCHANGED <<pc, fs, fs0, argSrc, argDst, src, dst, denied, readable, name, bucket>>

\* line 48
TargetDir(d, n) == d \o <<BucketName(n)>>

\* line 51
TargetFile(target_dir, n) == target_dir \o <<n>>

\* lines 43-49 and 57-58: creating the bucket directory raises
MkdirFails(n) ==
    LET item == Item(Top.dir, n)
    IN  /\ ~IsDir(fs, item)
        /\ IsFile(fs, item)
        /\ \E target_dir \in {TargetDir(dst, n)} : ~MkdirOk(fs, target_dir)
        /\ stack' = AfterMkdirFailure(stack, n)
        /\ out' = out \cup {Line("access", Top.dir)}
        /\ failed' = failed \cup {Raised("mkdir", item)}
        /\ UNCHANGED <<pc, fs, fs0, argSrc, argDst, src, dst, denied, readable, calls, name, bucket>>

\* lines 43-56: the move raises
MoveFails(n) ==
    LET item == Item(Top.dir, n)
    IN  /\ ~IsDir(fs, item)
        /\ IsFile(fs, item)
        /\ \E target_dir \in {TargetDir(dst, n)} :
              /\ MkdirOk(fs, target_dir)
              /\ \E made \in {MkdirP(fs, target_dir)} :
                    /\ ~MoveOk(made, item, TargetFile(target_dir, n), denied)
                    /\ fs' = MoveRaised(made, item, TargetFile(target_dir, n), denied, readable)
        /\ stack' = AfterMoveFailure(stack, n)
        /\ out' = out \cup {Line("move", item)}
        /\ failed' = failed \cup {Raised("move", item)}
        /\ UNCHANGED <<pc, fs0, argSrc, argDst, src, dst, denied, readable, calls, name, bucket>>

\* lines 43-54: the file is moved
MoveFile(n) ==
    LET item == Item(Top.dir, n)
    IN  /\ ~IsDir(fs, item)
        /\ IsFile(fs, item)
        /\ \E target_dir \in {TargetDir(dst, n)} :
              /\ MkdirOk(fs, target_dir)
              /\ \E made \in {MkdirP(fs, target_dir)} :
                    /\ MoveOk(made, item, TargetFile(target_dir, n), denied)
                    /\ fs' = Move(made, item, TargetFile(target_dir, n))
        /\ stack' = Advance(stack, n)
        /\ UNCHANGED <<pc, fs0, argSrc, argDst, src, dst, denied, readable, out, failed, calls, name, bucket>>

\* lines 39 and 43: neither a directory nor a regular file
IgnoreOther(n) ==
    LET item == Item(Top.dir, n)
    IN  /\ ~IsDir(fs, item)
        /\ ~IsFile(fs, item)
        /\ stack' = Advance(stack, n)
        /\ UNCHANGED <<pc, fs, fs0, argSrc, argDst, src, dst, denied, readable, out, failed, calls, name, bucket>>

\* the items the loop of the innermost invocation has still to visit
Pending == IF pc = "walk" /\ stack # <<>> THEN Top.pending ELSE {}

\* the loop of the innermost invocation ends and it returns
Return ==
    /\ pc = "walk"
    /\ stack # <<>>
    /\ Top.pending = {}
    /\ stack' = Front(stack)
    /\ UNCHANGED <<pc, fs, fs0, argSrc, argDst, src, dst, denied, readable, out, failed, calls, name, bucket>>

\* line 117
Finish ==
    /\ pc = "walk"
    /\ stack = <<>>
    /\ pc' = "done"
    /\ out' = out \cup {Line("completed", <<>>)}
    /\ UNCHANGED <<fs, fs0, argSrc, argDst, src, dst, denied, readable, stack, failed, calls, name, bucket>>

\* main(), with one iteration of the innermost loop per step, in any listing order
Next ==
    \/ RejectSource
    \/ DestinationFails
    \/ StartWalk
    \/ \E n \in Pending : SkipDestination(n)
    \/ \E n \in Pending : Recurse(n)
    \/ \E n \in Pending : MkdirFails(n)
    \/ \E n \in Pending : MoveFails(n)
    \/ \E n \in Pending : MoveFile(n)
    \/ \E n \in Pending : IgnoreOther(n)
    \/ Return
    \/ Finish

Spec == Init /\ [][Next]_vars

\* the program is sequential: a step that can be taken is taken
FairSpec == Spec /\ WF_vars(Next)

----------------------------------------------------------------------------
(* The bucket of a name, on its own *)

Names == UNION {[1..k -> Alphabet] : k \in 1..MaxLen}

InitName ==
    /\ name \in Names
    /\ bucket = <<"?">>
    /\ pc = "name"
    /\ fs0 = [q \in {Root} |-> DirEntry]
    /\ fs = fs0
    /\ argSrc = Root
    /\ argDst = Root
    /\ src = Root
    /\ dst = Root
    /\ denied = {}
    /\ readable = {}
    /\ stack = <<>>
    /\ out = {}
    /\ failed = {}
    /\ calls = {}

\* lines 44-46, applied to name
ComputeBucket ==
    /\ pc = "name"
    /\ bucket' = BucketName(name)
    /\ pc' = "named"
    /\ UNCHANGED <<fs, fs0, argSrc, argDst, src, dst, denied, readable, stack, out, failed, calls, name>>

NextName == ComputeBucket

NameSpec == InitName /\ [][NextName]_vars

----------------------------------------------------------------------------
(* What the properties speak of *)

\* main printed its completion notice: the walk was started and came back to main
Completed == pc = "done" /\ Line("completed", <<>>) \in out

\* the filesystem when the walk starts: the one before the run, with the destination root
Fs1 == IF MkdirOk(fs0, dst) THEN MkdirP(fs0, dst) ELSE fs0

\* the index of the final '.' of a name, 0 when it has none
LastDot(n) ==
    IF \E k \in 1..Len(n) : n[k] = "."
    THEN CHOOSE k \in 1..Len(n) : n[k] = "." /\ \A j \in (k + 1)..Len(n) : n[j] # "."
    ELSE 0

\* the bucket as the specification words it: what follows the final '.', lowercased,
\* and no_extension when there is no '.' or nothing follows the final one
ClaimedBucket(n) ==
    IF LastDot(n) = 0 \/ LastDot(n) = Len(n) THEN NoExtension
    ELSE [k \in 1..(Len(n) - LastDot(n)) |-> Lower(n[LastDot(n) + k])]

\* the same, with no_extension also when the final '.' is the first character
AmendedBucket(n) ==
    IF LastDot(n) <= 1 \/ LastDot(n) = Len(n) THEN NoExtension
    ELSE [k \in 1..(Len(n) - LastDot(n)) |-> Lower(n[LastDot(n) + k])]

\* the directories reachable from d without entering the destination root or a
\* directory of bad
RECURSIVE Reach(_, _, _)
Reach(f, d, bad) ==
    LET r == Resolve(f, d)
    IN  IF ~IsDir(f, d) \/ r \in bad THEN {}
        ELSE {r} \cup UNION {Reach(f, d \o <<n>>, bad) :
                 n \in {m \in ListDir(f, d) :
                          IsDir(f, d \o <<m>>) /\ Resolve(f, d \o <<m>>) # dst}}

RegularFiles(f) == {p \in DOMAIN f : f[p].kind = "file"}

\* the regular files of the initial filesystem the walk is to reach
WalkedFiles == {p \in RegularFiles(fs0) : Front(p) \in Reach(Fs1, src, {})}

\* the same, when the directories of bad cannot be listed
WalkedFilesBut(bad) == {p \in RegularFiles(fs0) : Front(p) \in Reach(Fs1, src, bad)}

\* destination/<bucket>/<name> for the file that was at p
BucketPath(p) == dst \o <<AmendedBucket(Last(p))>> \o <<Last(p)>>

\* where the file that was at p is to end: its bucket path, or inside it under the
\* same name when the bucket path was a directory before the run
FinalPath(p) ==
    IF Kind(fs0, BucketPath(p)) = "dir" THEN BucketPath(p) \o <<Last(p)>> ELSE BucketPath(p)

FileAt(f, q) == q \in DOMAIN f /\ f[q].kind = "file"

RaisedOps == {r.op : r \in failed}

\* the files whose move raised, by their canonical paths
MoveFailed == {NoFollow(fs0, r.path) : r \in {x \in failed : x.op = "move"}}

\* the directories whose listing raised, by their canonical paths
ListFailed == {Resolve(fs0, r.path) : r \in {x \in failed : x.op = "listdir"}}

\* the files whose handling raised, in the bucket creation or in the move
HandlingFailed == {NoFollow(fs0, r.path) : r \in {x \in failed : x.op \in {"mkdir", "move"}}}

\* the paths that exist, with what is there
Placement(f) == {<<q, f[q].kind>> : q \in DOMAIN f}

\* the placement a run without failure is to end with
ExpectedPlacement ==
    LET moved == {p \in WalkedFiles : FinalPath(p) # p}
    IN  {x \in Placement(Fs1) : x[1] \notin moved /\ x[1] \notin {FinalPath(p) : p \in WalkedFiles}}
          \cup {<<FinalPath(p), "file">> : p \in WalkedFiles}
          \cup {<<Front(BucketPath(p)), "dir">> : p \in WalkedFiles}

\* the file that was at p has an extension: its name reads name.EXT, both non-empty
HasExt(p) == AmendedBucket(Last(p)) # NoExtension

\* the destination root lies inside the source, at any depth
DstInsideSrc == Len(dst) > Len(src) /\ SubSeq(dst, 1, Len(src)) = src

----------------------------------------------------------------------------
(* The claims *)

\* C1, as stated: after a complete run in which no move fails (here: in which nothing
\* at all fails), every regular file name.EXT reachable from the source outside the
\* destination root is at destination/<ext lowercased>/name.EXT and no longer at its
\* original path.
C1_Original ==
    Completed /\ failed = {} =>
        \A p \in WalkedFiles : HasExt(p) =>
            /\ FileAt(fs, BucketPath(p))
            /\ p \notin DOMAIN fs

\* C1, amended: after a complete run in which nothing fails, every such file is at
\* destination/<ext lowercased>/name.EXT, or inside that path under its own name when
\* that path was a directory before the run, and no file is at its original path
\* unless the original path is that very place.
C1_ExtensionBucketing ==
    Completed /\ failed = {} =>
        \A p \in WalkedFiles : HasExt(p) =>
            /\ FileAt(fs, FinalPath(p))
            /\ FinalPath(p) # p => p \notin DOMAIN fs

\* C1 witness: a run without failure, the destination inside the source, has moved a
\* file with an upper-case extension out of a subdirectory into its bucket.
C1_Witness ==
    /\ Completed /\ failed = {} /\ DstInsideSrc
    /\ \E p \in WalkedFiles :
          /\ HasExt(p) /\ Len(p) > Len(src) + 1
          /\ Last(p) = nBT
          /\ FileAt(fs, dst \o <<nT, nBT>>)
          /\ p \notin DOMAIN fs

\* C2, as stated: copy_and_sort is never executed with the destination root as its
\* current directory, also when the destination equals the source.
C2_Original == \A c \in calls : c.dir # dst

\* C2, amended: copy_and_sort is executed with the destination root as its current
\* directory only by main's own call, when the destination equals the source; no
\* recursive call has the destination root as its current directory.
C2_DestinationNeverDescended ==
    \A c \in calls : c.dir = dst => c.depth = 0 /\ src = dst

\* C2 witness: the walk has listed a directory that holds a link to the destination
\* root, which lies inside the source, and the run is complete.
C2_Witness ==
    /\ Completed /\ DstInsideSrc
    /\ \E c \in calls : \E n \in ListDir(Fs1, c.dir) :
          /\ Fs1[c.dir \o <<n>>].kind = "link"
          /\ Resolve(Fs1, c.dir \o <<n>>) = dst

\* C3: when moves fail and nothing else does, every file whose move failed is still at
\* its original path, itself, with a diagnostic printed for it, and every other file the
\* walk reaches is in its bucket (itself, when no other reached file has its base name).
C3_MoveFailureIsLocal ==
    Completed /\ RaisedOps \subseteq {"move"} =>
        /\ \A p \in WalkedFiles :
              IF p \in MoveFailed
              THEN p \in DOMAIN fs /\ fs[p] = FileEntry(p)
              ELSE /\ FileAt(fs, FinalPath(p))
                   /\ (\A q \in WalkedFiles : Last(q) = Last(p) => q = p) =>
                         fs[FinalPath(p)] = FileEntry(p)
        /\ \A r \in failed : Line("move", r.path) \in out

\* C3 witness: one move failed, and a file of the same directory, listed with it, was
\* moved to its bucket.
C3_Witness ==
    /\ Completed /\ RaisedOps = {"move"}
    /\ \E p, q \in WalkedFiles :
          /\ p \in MoveFailed /\ q \notin MoveFailed /\ Front(p) = Front(q)
          /\ FileAt(fs, p) /\ Line("move", p) \in out
          /\ FinalPath(q) # q /\ FileAt(fs, FinalPath(q)) /\ q \notin DOMAIN fs

\* C4, as stated: after a complete run in which no move fails (here: in which nothing
\* at all fails), no file the walk reaches is lost or replaced by another, also when
\* two files have the same base name.
C4_Original ==
    Completed /\ failed = {} =>
        \A p \in WalkedFiles : \E q \in RegularFiles(fs) : fs[q].id = p

\* C4, amended: after a complete run in which nothing fails, every file the walk reaches
\* whose base name no other reached file has is in its bucket under its original name,
\* itself and not another file; of files that share a base name only the last moved
\* is kept.
C4_NoFileLost ==
    Completed /\ failed = {} =>
        \A p \in WalkedFiles :
            (\A q \in WalkedFiles : Last(q) = Last(p) => q = p) =>
                FileAt(fs, FinalPath(p)) /\ fs[FinalPath(p)].id = p

\* C4 witness: two files from different directories are both in their buckets, each
\* itself, after a run without failure.
C4_Witness ==
    /\ Completed /\ failed = {}
    /\ \E p, q \in WalkedFiles :
          /\ Front(p) # Front(q) /\ Last(p) # Last(q)
          /\ FinalPath(p) # p /\ FinalPath(q) # q
          /\ FileAt(fs, FinalPath(p)) /\ fs[FinalPath(p)].id = p
          /\ FileAt(fs, FinalPath(q)) /\ fs[FinalPath(q)].id = q

\* C5: the run terminates, wherever the destination root lies.
C5_Terminates == <>(pc = "done")

\* C5 witness: a run whose destination is the source itself has created a bucket in the
\* directory it was walking, moved a file there, and ended.
C5_Witness ==
    /\ Completed /\ src = dst
    /\ \E p \in WalkedFiles : FinalPath(p) # p /\ FileAt(fs, FinalPath(p)) /\ p \notin DOMAIN fs

\* C6, as stated: the bucket is what follows the final '.' of the name, lowercased, and
\* no_extension exactly when the name has no '.' or nothing follows its final '.'.
C6_Original == pc = "named" => bucket = ClaimedBucket(name)

\* C6, amended: the bucket is what follows the final '.' of the name, lowercased, and
\* no_extension exactly when the name has no '.', nothing follows its final '.', or
\* its final '.' is its first character (.bashrc goes to no_extension).
C6_BucketOfName == pc = "named" => bucket = AmendedBucket(name)

\* C6 witness: the bucket of a name with an upper-case extension after two dots has
\* been computed.
C6_Witness == pc = "named" /\ name = <<"a", ".", ".", "T">> /\ bucket = <<"t">>

\* C7: with a source that is missing or no directory, main prints the diagnostic and
\* leaves the filesystem as it was without calling copy_and_sort; with a destination
\* root that cannot be created, copy_and_sort is not called and no file is moved.
C7_PreChecksAbort ==
    /\ ~(src \in DOMAIN fs0 /\ fs0[src].kind = "dir") =>
          /\ fs = fs0 /\ calls = {}
          /\ pc = "done" => out = {Line("source", src)}
    /\ (\E q \in Prefixes(dst) : q \in DOMAIN fs0 /\ fs0[q].kind # "dir") =>
          /\ calls = {} /\ RegularFiles(fs) = RegularFiles(fs0)
          /\ Line("completed", <<>>) \notin out

\* C7 witness: main has returned on a source that is a regular file, the destination
\* missing.
C7_Witness ==
    /\ pc = "done" /\ FileAt(fs0, src) /\ dst \notin DOMAIN fs0
    /\ out = {Line("source", src)}

\* C8: when listings fail and nothing else does, every file reachable without passing
\* through a directory whose listing failed is in its bucket, a diagnostic is printed
\* for each failing directory, and control returns to main.
C8_ListFailureIsLocal ==
    Completed /\ RaisedOps \subseteq {"listdir"} =>
        /\ \A p \in WalkedFilesBut(ListFailed) : FileAt(fs, FinalPath(p))
        /\ \A r \in failed : Line("access", r.path) \in out

\* C8 witness: the listing of a subdirectory failed and a file beside that
\* subdirectory was moved to its bucket.
C8_Witness ==
    /\ Completed /\ RaisedOps = {"listdir"}
    /\ \E d \in ListFailed : \E p \in WalkedFilesBut(ListFailed) :
          /\ Front(p) = Front(d)
          /\ FinalPath(p) # p /\ FileAt(fs, FinalPath(p)) /\ p \notin DOMAIN fs

\* C9, as stated: a failure while handling one file, in creating its bucket directory
\* or in moving it, affects only that file: every other file the walk reaches is
\* handled, so it is in its bucket.
C9_Original ==
    Completed /\ RaisedOps \subseteq {"mkdir", "move"} =>
        \A p \in WalkedFiles : p \in HandlingFailed \/ FileAt(fs, FinalPath(p))

\* C10: every run without failure ends with the same placement, the one the initial
\* filesystem, the source and the destination determine, whatever the listing order.
C10_OrderIndependent ==
    Completed /\ failed = {} => Placement(fs) = ExpectedPlacement

\* C10 witness: a run without failure, the destination inside the source and listed
\* with two files that were moved.
C10_Witness ==
    /\ Completed /\ failed = {} /\ Front(dst) = src /\ IsDir(fs0, dst)
    /\ Cardinality({p \in WalkedFiles : Front(p) = src /\ FinalPath(p) # p}) = 2

====
